---- MODULE Spec2Model ----
(***************************************************************************)
(* Spiking neural network of src/snn/model_struct.py: SpikyNode (leaky     *)
(* integrate-and-fire neuron), SpikyLayer and SpikyNet.                    *)
(*                                                                         *)
(* Numbers.  Python floats are modelled as exact rationals <<n, d>> in     *)
(* lowest terms with d > 0; -np.inf is the pair <<-1, 0>>.  Rounding of    *)
(* IEEE doubles is not modelled.                                           *)
(***************************************************************************)
EXTENDS Integers, Sequences, FiniteSets, TLC

VARIABLES net,      \* the SpikyNet: [hidden_layer, output_layer], sequences of nodes
          twin,     \* a second SpikyNet instance (used by SpecTwin only)
          op,       \* name of the last operation performed
          arg,      \* its argument
          pre,      \* net as it was before the last operation
          ret,      \* what the last operation returned
          twinRet,  \* what the last operation returned on the twin
          genome,   \* <<g>> once genome g was assigned to net and twin (SpecTwin only)
          steps     \* number of operations performed so far (compute calls in SpecTwin)

vars == <<net, twin, op, arg, pre, ret, twinRet, genome, steps>>

----------------------------------------------------------------------------
(* Bounds of the model *)

\* operations per run
MaxSteps == 2
\* longest input vector fed to compute
MaxInputLen == 2
\* longest flat weight vector handed to set_weights
MaxFlatLen == 5

----------------------------------------------------------------------------
(* Rational arithmetic standing in for Python floats *)

AbsInt(n) == IF n < 0 THEN -n ELSE n

RECURSIVE GCD(_, _)
GCD(a, b) == IF b = 0 THEN a ELSE GCD(b, a % b)

Rat(n, d) ==
    LET g == GCD(AbsInt(n), AbsInt(d))
        s == IF d < 0 THEN -1 ELSE 1
    IN  <<(s * n) \div g, (s * d) \div g>>

Zero == <<0, 1>>
One == <<1, 1>>
Half == <<1, 2>>
NegInf == <<-1, 0>>

IsInf(x) == x[2] = 0

\* x + y; -inf + y = x + -inf = -inf
Add(x, y) == IF IsInf(x) \/ IsInf(y) THEN NegInf
             ELSE Rat(x[1] * y[2] + y[1] * x[2], x[2] * y[2])
\* x - y for finite x, y
Sub(x, y) == Rat(x[1] * y[2] - y[1] * x[2], x[2] * y[2])
\* x * y for finite y > 0 or finite x; -inf * y = -inf when y > 0
Mul(x, y) == IF IsInf(x) THEN x ELSE Rat(x[1] * y[1], x[2] * y[2])
\* x >= y; -inf >= y is false for finite y
Geq(x, y) == IF IsInf(x) THEN IsInf(y)
             ELSE IF IsInf(y) THEN TRUE
             ELSE x[1] * y[2] >= y[1] * x[2]
\* abs(x) for finite x
AbsRat(x) == <<AbsInt(x[1]), x[2]>>

----------------------------------------------------------------------------
(* Constants of model_struct.py *)

SPIKE_DECAY == <<1, 10>>
MAX_FIRELOG_SIZE == 200

----------------------------------------------------------------------------
(* snn.ring_buffer.RingBuffer: a fixed-capacity circular log.  data holds  *)
(* the stored entries in slot order, index is the next slot to write.      *)

RingBuffer(capacity) == [data |-> <<>>, index |-> 0, capacity |-> capacity]

RingBufferAdd(rb, value) ==
    IF Len(rb.data) < rb.capacity
    THEN [rb EXCEPT !.data = Append(rb.data, value),
                    !.index = (rb.index + 1) % rb.capacity]
    ELSE [rb EXCEPT !.data = [rb.data EXCEPT ![rb.index + 1] = value],
                    !.index = (rb.index + 1) % rb.capacity]

RingBufferLength(rb) == Len(rb.data)

\* entries oldest first
RingBufferGet(rb) ==
    IF Len(rb.data) < rb.capacity
    THEN rb.data
    ELSE SubSeq(rb.data, rb.index + 1, Len(rb.data)) \o SubSeq(rb.data, 1, rb.index)

----------------------------------------------------------------------------
(* SpikyNode *)

\* SpikyNode.__init__ with the drawn weights given: size + 1 weights, at rest
SpikyNode(weights) ==
    [weights |-> weights,
     level |-> NegInf,
     firelog |-> RingBuffer(MAX_FIRELOG_SIZE),
     levels_log |-> <<>>]

get_bias(node) == node.weights[Len(node.weights)]

\* variant: the level keeps the fraction SPIKE_DECAY instead of losing it
DecayKeeps(level) == Mul(level, SPIKE_DECAY)

\* self.level *= (1 - SPIKE_DECAY)
Decay(level) == Mul(level, Sub(One, SPIKE_DECAY))

\* (len(inputs) + 1) != len(self._weights)
WidthMismatch(inputs, weights) == (Len(inputs) + 1) # Len(weights)

RECURSIVE SumTo(_, _, _)
SumTo(inputs, weights, k) ==
    IF k = 0 THEN Zero
    ELSE Add(SumTo(inputs, weights, k - 1), Mul(inputs[k], weights[k]))

\* sum(inputs[i] * self._weights[i] for i in range(len(inputs)))
WeightedSum(inputs, weights) == SumTo(inputs, weights, Len(inputs))

\* if self.level == -np.inf: level = weighted_sum  else: level += weighted_sum
Integrate(level, weighted_sum) ==
    IF level = NegInf THEN weighted_sum ELSE Add(level, weighted_sum)

\* variant: strict comparison
FiresStrict(level, bias) == Geq(level, bias) /\ level # bias

\* variant: comparison the wrong way round
FiresBelow(level, bias) == Geq(bias, level)

\* self.level >= self.get_bias()
Fires(level, bias) == Geq(level, bias)

\* variant: the early return also logs a 0 in the firing history
ComputeMismatchLogged(node, decayed) ==
    [node |-> [node EXCEPT !.level = decayed,
                           !.firelog = RingBufferAdd(node.firelog, 0)],
     output |-> Zero,
     level |-> decayed]

\* the early return of compute on a width mismatch
ComputeMismatch(node, decayed) ==
    [node |-> [node EXCEPT !.level = decayed],
     output |-> Zero,
     level |-> decayed]

\* variant: the firing branch without the reset of the level
ComputeFireNoReset(node, logged) ==
    [node |-> [node EXCEPT !.levels_log = logged,
                           !.firelog = RingBufferAdd(node.firelog, 1)],
     output |-> One,
     level |-> node.level]

\* variant: the firing branch logs the level after the reset
ComputeFireLogsSentinel(node, logged) ==
    [node |-> [node EXCEPT !.level = NegInf,
                           !.levels_log = Append(node.levels_log, NegInf),
                           !.firelog = RingBufferAdd(node.firelog, 1)],
     output |-> One,
     level |-> NegInf]

\* the firing branch of compute
ComputeFire(node, logged) ==
    [node |-> [node EXCEPT !.level = NegInf,
                           !.levels_log = logged,
                           !.firelog = RingBufferAdd(node.firelog, 1)],
     output |-> One,
     level |-> NegInf]

\* variant: the non-firing tail does not record the step in the firing history
ComputeNoFireUnrecorded(node, lvl, logged) ==
    [node |-> [node EXCEPT !.level = lvl, !.levels_log = logged],
     output |-> Zero,
     level |-> lvl]

\* the non-firing tail of compute
ComputeNoFire(node, lvl, logged) ==
    [node |-> [node EXCEPT !.level = lvl,
                           !.levels_log = logged,
                           !.firelog = RingBufferAdd(node.firelog, 0)],
     output |-> Zero,
     level |-> lvl]

\* SpikyNode.compute: the node afterwards and the returned (output, level)
NodeCompute(node, inputs) ==
    LET decayed == Decay(node.level)
    IN  IF WidthMismatch(inputs, node.weights)
        THEN ComputeMismatch(node, decayed)
        ELSE LET lvl == Integrate(decayed, WeightedSum(inputs, node.weights))
                 logged == Append(node.levels_log, lvl)
             IN  IF Fires(lvl, get_bias(node))
                 THEN ComputeFire(node, logged)
                 ELSE ComputeNoFire(node, lvl, logged)

\* variant: abs of every element, the bias included
AbsAll(w) == [i \in 1..Len(w) |-> AbsRat(w[i])]

\* self._weights[:-1] = list(map(abs, self._weights[:-1]))
AbsAllButLast(w) ==
    [i \in 1..Len(w) |-> IF i < Len(w) THEN AbsRat(w[i]) ELSE w[i]]

\* variant: the vector is installed whatever its length
NodeSetWeightsUnchecked(node, input_weights) ==
    [node EXCEPT !.weights = AbsAllButLast(input_weights)]

\* variant: an accepted assignment puts the neuron back at rest
NodeSetWeightsResets(node, input_weights) ==
    IF Len(input_weights) # Len(node.weights)
    THEN node
    ELSE [node EXCEPT !.weights = AbsAllButLast(input_weights), !.level = NegInf]

\* SpikyNode.set_weights
NodeSetWeights(node, input_weights) ==
    IF Len(input_weights) # Len(node.weights)
    THEN node
    ELSE [node EXCEPT !.weights = AbsAllButLast(input_weights)]

----------------------------------------------------------------------------
(* SpikyLayer *)

\* SpikyLayer.__init__ with each node's drawn weights given
SpikyLayer(weightsPerNode) ==
    [i \in 1..Len(weightsPerNode) |-> SpikyNode(weightsPerNode[i])]

\* the loop of SpikyLayer.compute from node k + 1 on; acc holds the nodes as
\* left by their compute and the outputs and levels appended so far
RECURSIVE LayerComputeFrom(_, _, _, _)
LayerComputeFrom(nodes, inputs, k, acc) ==
    IF k = Len(nodes)
    THEN acc
    ELSE LET r == NodeCompute(nodes[k + 1], inputs)
         IN  LayerComputeFrom(nodes, inputs, k + 1,
                 [nodes |-> Append(acc.nodes, r.node),
                  outputs |-> Append(acc.outputs, r.output),
                  levels |-> Append(acc.levels, r.level)])

\* SpikyLayer.compute: the nodes afterwards, the outputs and the levels
LayerCompute(nodes, inputs) ==
    LayerComputeFrom(nodes, inputs, 0,
        [nodes |-> <<>>, outputs |-> <<>>, levels |-> <<>>])

\* input_weights[start:end] for 0-based start, end (Python slice, clipped)
Slice(s, start, end) ==
    LET lo == IF start > Len(s) THEN Len(s) ELSE start
        hi == IF end > Len(s) THEN Len(s) ELSE end
    IN  SubSeq(s, lo + 1, hi)

\* len(input_weights) // len(self.nodes)
WeightsPerNode(input_weights, nodes) == Len(input_weights) \div Len(nodes)

\* variant: start = idx instead of idx * weights_per_node
NodeSliceUnscaled(input_weights, nodes, idx) ==
    LET weights_per_node == WeightsPerNode(input_weights, nodes)
        start == idx - 1
    IN  Slice(input_weights, start, start + weights_per_node)

\* variant: the last node is handed the remainder of the vector as well
NodeSliceRemainderToLast(input_weights, nodes, idx) ==
    LET weights_per_node == WeightsPerNode(input_weights, nodes)
        start == (idx - 1) * weights_per_node
    IN  Slice(input_weights, start,
              IF idx = Len(nodes) THEN Len(input_weights)
              ELSE start + weights_per_node)

\* the slice handed to node idx (1-based here, idx - 1 in the code)
NodeSlice(input_weights, nodes, idx) ==
    LET weights_per_node == WeightsPerNode(input_weights, nodes)
        start == (idx - 1) * weights_per_node
    IN  Slice(input_weights, start, start + weights_per_node)

\* SpikyLayer.set_weights
LayerSetWeights(nodes, input_weights) ==
    IF Len(nodes) = 0
    THEN nodes
    ELSE [idx \in 1..Len(nodes) |->
             NodeSetWeights(nodes[idx], NodeSlice(input_weights, nodes, idx))]

----------------------------------------------------------------------------
(* SpikyNet *)

\* variant: the output layer is fed the hidden layer's levels
NetComputeOnLevels(n, inputs) ==
    LET h == LayerCompute(n.hidden_layer, inputs)
        o == LayerCompute(n.output_layer, h.levels)
    IN  [net |-> [hidden_layer |-> h.nodes, output_layer |-> o.nodes],
         hidden |-> [outputs |-> h.outputs, levels |-> h.levels],
         output |-> [outputs |-> o.outputs, levels |-> o.levels]]

\* SpikyNet.compute: hidden layer on inputs, output layer on the hidden outputs
NetCompute(n, inputs) ==
    LET h == LayerCompute(n.hidden_layer, inputs)
        o == LayerCompute(n.output_layer, h.outputs)
    IN  [net |-> [hidden_layer |-> h.nodes, output_layer |-> o.nodes],
         hidden |-> [outputs |-> h.outputs, levels |-> h.levels],
         output |-> [outputs |-> o.outputs, levels |-> o.levels]]

\* variant: only the hidden layer is assigned
NetSetWeightsHiddenOnly(n, input_weights) ==
    [hidden_layer |-> LayerSetWeights(n.hidden_layer, input_weights.hidden_layer),
     output_layer |-> n.output_layer]

\* SpikyNet.set_weights with both keys present
NetSetWeights(n, input_weights) ==
    [hidden_layer |-> LayerSetWeights(n.hidden_layer, input_weights.hidden_layer),
     output_layer |-> LayerSetWeights(n.output_layer, input_weights.output_layer)]

\* SpikyNet.set_weights on a mapping that may lack a key: the statements of
\* lines 226-227 in order, input_weights[key] raising KeyError for a missing
\* key; the network as the call leaves it and whether it raised
NetSetWeightsKeyed(n, input_weights) ==
    IF "hidden_layer" \notin DOMAIN input_weights
    THEN [net |-> n, raised |-> TRUE]
    ELSE LET h == LayerSetWeights(n.hidden_layer, input_weights.hidden_layer)
         IN  IF "output_layer" \notin DOMAIN input_weights
             THEN [net |-> [n EXCEPT !.hidden_layer = h], raised |-> TRUE]
             ELSE [net |-> [hidden_layer |-> h,
                            output_layer |-> LayerSetWeights(n.output_layer,
                                                 input_weights.output_layer)],
                   raised |-> FALSE]

\* Python's s[start:] for any integer start
PyFrom(s, start) ==
    LET from == IF start < 0
                THEN (IF Len(s) + start < 0 THEN 0 ELSE Len(s) + start)
                ELSE (IF start > Len(s) THEN Len(s) ELSE start)
    IN  SubSeq(s, from + 1, Len(s))

\* sum(s), added up by halves
RECURSIVE SumInts(_)
SumInts(s) ==
    IF s = <<>> THEN 0
    ELSE IF Len(s) = 1 THEN s[1]
    ELSE LET half == Len(s) \div 2
         IN  SumInts(SubSeq(s, 1, half)) + SumInts(SubSeq(s, half + 1, Len(s)))

\* a window argument: <<>> is None, <<w>> the integer w
ClipWindowNoneOnly(window, length) ==
    IF window = <<>> THEN length ELSE window[1]

\* line 86-87: the window the division uses
ClipWindow(window, length) ==
    IF window = <<>> THEN length
    ELSE IF window[1] > length THEN length
    ELSE window[1]

\* SpikyNode.duty_cycle(window): the value returned, or raised when the
\* division of line 90 is by zero
DutyCycle(node, window) ==
    LET length == RingBufferLength(node.firelog)
        w == ClipWindow(window, length)
        recent_fires == PyFrom(RingBufferGet(node.firelog), -w)
    IN  IF length = 0 THEN [raised |-> FALSE, value |-> Zero]
        ELSE IF w = 0 THEN [raised |-> TRUE, value |-> Zero]
        ELSE [raised |-> FALSE, value |-> Rat(SumInts(recent_fires), w)]

\* variant: the value is appended instead of replacing the last element
NodeSetBiasAppends(node, val) ==
    [node EXCEPT !.weights = Append(node.weights, val)]

\* SpikyNode.set_bias
NodeSetBias(node, val) ==
    [node EXCEPT !.weights = [node.weights EXCEPT ![Len(node.weights)] = val]]

----------------------------------------------------------------------------
(* The driver's inputs *)

\* (input_size, hidden_size, output_size) given to SpikyNet.__init__
Topologies == {<<2, 1, 1>>, <<1, 2, 1>>}

\* values of an input vector
InputVals == {Zero, One}

\* input vectors of every length from 1 to MaxInputLen
Inputs == UNION {[1..k -> InputVals] : k \in 1..MaxInputLen}

\* two periodic streams of genome values
\*   1:  -1, -1, 1/2, -1, 1/2, -1, -1, 1/2, -1, 1/2, ...
\*   2:  1/2, 1, 1/2, 1, ...
GenomeValue(p, i) ==
    IF p = 1
    THEN (IF i % 5 \in {0, 3} THEN Half ELSE <<-1, 1>>)
    ELSE (IF i % 2 = 0 THEN One ELSE Half)

\* flat weight vectors: the pieces of every length up to MaxFlatLen that start
\* a stream
FlatVectors ==
    {[i \in 1..m |-> GenomeValue(p, i)] : p \in 1..2, m \in 0..MaxFlatLen}

\* values given to set_bias
BiasVals == {<<-1, 1>>, Half}

\* genomes: a mapping with the keys 'hidden_layer' and 'output_layer'; the two
\* flat vectors are consecutive pieces, of any two lengths up to MaxFlatLen,
\* of one stream
Genomes ==
    {[hidden_layer |-> [i \in 1..mh |-> GenomeValue(p, i)],
      output_layer |-> [i \in 1..mo |-> GenomeValue(p, mh + i)]] :
        p \in 1..2, mh \in 0..MaxFlatLen, mo \in 0..MaxFlatLen}

\* a draw of np.random.uniform(-1, 1, size + 1) in SpikyNode.__init__: the size
\* weights at w, the bias at b
InitWeights(size, w, b) == [i \in 1..(size + 1) |-> IF i <= size THEN w ELSE b]

\* SpikyNet.__init__ for topology t with every node drawing (w, b)
FreshNet(t, w, b) ==
    [hidden_layer |-> SpikyLayer([i \in 1..t[2] |-> InitWeights(t[1], w, b)]),
     output_layer |-> SpikyLayer([i \in 1..t[3] |-> InitWeights(t[2], w, b)])]

\* the draws (w, b), in a fixed order:
\*   (-1/2, -1/2), (-1/2, 1/2), (1/2, -1/2), (1/2, 3/4)
InitDraws ==
    <<<<<<-1, 2>>, <<-1, 2>>>>, <<<<-1, 2>>, Half>>, <<Half, <<-1, 2>>>>, <<Half, <<3, 4>>>>>>

FreshNets(t) == {FreshNet(t, InitDraws[d][1], InitDraws[d][2]) : d \in DOMAIN InitDraws}

NoNet == [hidden_layer |-> <<>>, output_layer |-> <<>>]
NoLayerRet == [outputs |-> <<>>, levels |-> <<>>]
NoRet == [hidden |-> NoLayerRet, output |-> NoLayerRet]

----------------------------------------------------------------------------
(* One network driven by compute and set_weights calls *)

Init ==
    /\ \E t \in Topologies : net \in FreshNets(t)
    /\ twin = NoNet
    /\ op = "init"
    /\ arg = <<>>
    /\ pre = net
    /\ ret = NoRet
    /\ twinRet = NoRet
    /\ genome = <<>>
    /\ steps = 0

\* net.compute(inputs)
Compute(inputs) ==
    /\ steps < MaxSteps
    /\ \E r \in {NetCompute(net, inputs)} :
           /\ net' = r.net
           /\ ret' = [hidden |-> r.hidden, output |-> r.output]
    /\ op' = "compute"
    /\ arg' = inputs
    /\ pre' = net
    /\ steps' = steps + 1
    /\ UNCHANGED <<twin, twinRet, genome>>

\* net.set_weights(input_weights)
SetWeights(input_weights) ==
    /\ steps < MaxSteps
    /\ net' = NetSetWeights(net, input_weights)
    /\ ret' = NoRet
    /\ op' = "set_weights"
    /\ arg' = input_weights
    /\ pre' = net
    /\ steps' = steps + 1
    /\ UNCHANGED <<twin, twinRet, genome>>

Next ==
    \/ \E inputs \in Inputs : Compute(inputs)
    \/ \E input_weights \in Genomes : SetWeights(input_weights)

Spec == Init /\ [][Next]_vars

----------------------------------------------------------------------------
(* Two networks of one topology, constructed independently, assigned the   *)
(* same genome and then fed the same inputs                                *)

\* the two constructors draw different weights; of the two orders of a pair of
\* draws one is kept, the other being its mirror image
TwinInit ==
    /\ \E t \in Topologies : \E d \in DOMAIN InitDraws, e \in DOMAIN InitDraws :
           /\ d < e
           /\ net = FreshNet(t, InitDraws[d][1], InitDraws[d][2])
           /\ twin = FreshNet(t, InitDraws[e][1], InitDraws[e][2])
    /\ op = "init"
    /\ arg = <<>>
    /\ pre = net
    /\ ret = NoRet
    /\ twinRet = NoRet
    /\ genome = <<>>
    /\ steps = 0

\* net.set_weights(g); twin.set_weights(g) on the two fresh networks
TwinSetWeights(input_weights) ==
    /\ op = "init"
    /\ net' = NetSetWeights(net, input_weights)
    /\ twin' = NetSetWeights(twin, input_weights)
    /\ ret' = NoRet
    /\ twinRet' = NoRet
    /\ op' = "set_weights"
    /\ arg' = input_weights
    /\ genome' = <<input_weights>>
    /\ pre' = net
    /\ steps' = steps

\* net.compute(inputs); twin.compute(inputs)
TwinCompute(inputs) ==
    /\ op # "init"
    /\ steps < MaxSteps
    /\ \E r \in {NetCompute(net, inputs)}, q \in {NetCompute(twin, inputs)} :
           /\ net' = r.net
           /\ twin' = q.net
           /\ ret' = [hidden |-> r.hidden, output |-> r.output]
           /\ twinRet' = [hidden |-> q.hidden, output |-> q.output]
    /\ op' = "compute"
    /\ arg' = inputs
    /\ pre' = net
    /\ steps' = steps + 1
    /\ UNCHANGED genome

TwinNext ==
    \/ \E input_weights \in Genomes : TwinSetWeights(input_weights)
    \/ \E inputs \in Inputs : TwinCompute(inputs)

SpecTwin == TwinInit /\ [][TwinNext]_vars

----------------------------------------------------------------------------
(* One network driven through the whole assignment interface: compute,     *)
(* net.set_weights with and without its keys, layer.set_weights,           *)
(* node.set_weights and node.set_bias                                      *)

\* net.set_weights(input_weights) for a mapping lacking a key
SetWeightsMissingKey(input_weights) ==
    /\ steps < MaxSteps
    /\ \E r \in {NetSetWeightsKeyed(net, input_weights)} :
           /\ r.raised
           /\ net' = r.net
    /\ ret' = NoRet
    /\ op' = "set_weights_raised"
    /\ arg' = input_weights
    /\ pre' = net
    /\ steps' = steps + 1
    /\ UNCHANGED <<twin, twinRet, genome>>

\* net.<layer>.set_weights(input_weights)
LayerSet(L, input_weights) ==
    /\ steps < MaxSteps
    /\ net' = [net EXCEPT ![L] = LayerSetWeights(net[L], input_weights)]
    /\ ret' = NoRet
    /\ op' = "layer_set_weights"
    /\ arg' = [layer |-> L, input_weights |-> input_weights]
    /\ pre' = net
    /\ steps' = steps + 1
    /\ UNCHANGED <<twin, twinRet, genome>>

\* net.<layer>.nodes[idx].set_weights(input_weights)
NodeSet(L, idx, input_weights) ==
    /\ steps < MaxSteps
    /\ idx \in 1..Len(net[L])
    /\ net' = [net EXCEPT ![L][idx] = NodeSetWeights(net[L][idx], input_weights)]
    /\ ret' = NoRet
    /\ op' = "node_set_weights"
    /\ arg' = [layer |-> L, idx |-> idx, input_weights |-> input_weights]
    /\ pre' = net
    /\ steps' = steps + 1
    /\ UNCHANGED <<twin, twinRet, genome>>

\* net.<layer>.nodes[idx].set_bias(val)
SetBias(L, idx, val) ==
    /\ steps < MaxSteps
    /\ idx \in 1..Len(net[L])
    /\ net' = [net EXCEPT ![L][idx] = NodeSetBias(net[L][idx], val)]
    /\ ret' = NoRet
    /\ op' = "set_bias"
    /\ arg' = [layer |-> L, idx |-> idx, val |-> val]
    /\ pre' = net
    /\ steps' = steps + 1
    /\ UNCHANGED <<twin, twinRet, genome>>

LayerNames == {"hidden_layer", "output_layer"}

AssignNext ==
    \/ \E inputs \in Inputs : Compute(inputs)
    \/ \E input_weights \in Genomes : SetWeights(input_weights)
    \/ \E v \in FlatVectors : SetWeightsMissingKey([hidden_layer |-> v])
    \/ \E v \in FlatVectors : SetWeightsMissingKey([output_layer |-> v])
    \/ \E L \in LayerNames, v \in FlatVectors : LayerSet(L, v)
    \/ \E L \in LayerNames, idx \in 1..2, v \in FlatVectors : NodeSet(L, idx, v)
    \/ \E L \in LayerNames, idx \in 1..2, val \in BiasVals : SetBias(L, idx, val)

SpecAssign == Init /\ [][AssignNext]_vars

----------------------------------------------------------------------------
(* One network run past the capacity of its firing histories by a periodic  *)
(* stimulus, its neurons' duty cycles read at any point of the run          *)

MaxLongSteps == 210

\* the fresh networks whose neurons fire often enough for their levels to stay
\* within TLC's integers over a long run: the draws (1/2, -1/2) and (1/2, 3/4)
LongDraws == {3, 4}

\* the input vector of step k for a network of k_in inputs: ones, zeros every
\* third step, and a vector one too long every seventh
Stimulus(k, k_in) ==
    IF k % 7 = 6 THEN [i \in 1..(k_in + 1) |-> One]
    ELSE IF k % 3 = 1 THEN [i \in 1..k_in |-> Zero]
    ELSE [i \in 1..k_in |-> One]

\* the windows duty_cycle is asked for: None, the default, and integers around
\* zero, the capacity and beyond
Windows == {<<>>} \cup {<<w>> : w \in {-2, -1, 0, 1, 2, 3, 100, 200, 250}}

LongInit ==
    /\ \E t \in Topologies, d \in LongDraws :
           net = FreshNet(t, InitDraws[d][1], InitDraws[d][2])
    /\ twin = NoNet
    /\ op = "init"
    /\ arg = <<>>
    /\ pre = net
    /\ ret = NoRet
    /\ twinRet = NoRet
    /\ genome = <<>>
    /\ steps = 0

\* net.compute(inputs) on the stimulus of the step
LongCompute ==
    /\ steps < MaxLongSteps
    /\ \E inputs \in {Stimulus(steps, Len(net.hidden_layer[1].weights) - 1)} :
           /\ \E r \in {NetCompute(net, inputs)} :
                  /\ net' = r.net
                  /\ ret' = [hidden |-> r.hidden, output |-> r.output]
           /\ arg' = inputs
    /\ op' = "compute"
    /\ pre' = net
    /\ steps' = steps + 1
    /\ UNCHANGED <<twin, twinRet, genome>>

\* net.<layer>.nodes[idx].duty_cycle(window)
DutyCycleCall(L, idx, window) ==
    /\ idx \in 1..Len(net[L])
    /\ ret' = DutyCycle(net[L][idx], window)
    /\ op' = "duty_cycle"
    /\ arg' = [layer |-> L, idx |-> idx, window |-> window]
    /\ pre' = net
    /\ UNCHANGED <<net, steps, twin, twinRet, genome>>

LongNext ==
    \/ LongCompute
    \/ \E L \in LayerNames, idx \in 1..2, window \in Windows :
           DutyCycleCall(L, idx, window)

SpecLong == LongInit /\ [][LongNext]_vars

----------------------------------------------------------------------------
(* The node-level calls made by the last net.compute: one SpikyNode.compute *)
(* per node, the hidden nodes on the network inputs, the output nodes on    *)
(* the hidden layer's outputs.  A call is a pair <<layer, index>>.          *)

Layers == {"hidden_layer", "output_layer"}

Calls ==
    IF op = "compute"
    THEN UNION {{<<L, i>> : i \in 1..Len(pre[L])} : L \in Layers}
    ELSE {}

\* the node before and after the call
Before(c) == pre[c[1]][c[2]]
After(c) == net[c[1]][c[2]]

\* the inputs the call was given and the (output, level) it returned
CallInputs(c) == IF c[1] = "hidden_layer" THEN arg ELSE ret.hidden.outputs
CallOutput(c) ==
    IF c[1] = "hidden_layer" THEN ret.hidden.outputs[c[2]] ELSE ret.output.outputs[c[2]]
CallLevel(c) ==
    IF c[1] = "hidden_layer" THEN ret.hidden.levels[c[2]] ELSE ret.output.levels[c[2]]

\* the call's input vector has the node's width
RightWidth(c) == Len(CallInputs(c)) + 1 = Len(Before(c).weights)

Bias(node) == node.weights[Len(node.weights)]

Resting(node) == node.level = NegInf
Charging(node) == node.level # NegInf

Last(s) == s[Len(s)]

\* the firing history, oldest first, and whether it is that of `before` plus v
History(node) == RingBufferGet(node.firelog)
Recorded(before, after, v) ==
    /\ RingBufferLength(after.firelog) =
           (IF RingBufferLength(before.firelog) < MAX_FIRELOG_SIZE
            THEN RingBufferLength(before.firelog) + 1
            ELSE MAX_FIRELOG_SIZE)
    /\ Last(History(after)) = v

----------------------------------------------------------------------------
\* C1: whenever SpikyNode.compute returns firing output 1.0, the neuron's level
\* after the call is the resting sentinel -inf and the most recent entry of
\* its firing history is 1.
C1_FiringResetsLevel ==
    \A c \in Calls :
        CallOutput(c) = One =>
            /\ After(c).level = NegInf
            /\ RingBufferLength(After(c).firelog) > 0
            /\ Last(History(After(c))) = 1

\* a neuron charging at a level other than 0 fired in the last compute
C1_Witness ==
    \E c \in Calls :
        CallOutput(c) = One /\ Charging(Before(c)) /\ Before(c).level # Zero

\* C2 as stated: compute with len(inputs) + 1 != len(weights) returns (0.0, v)
\* with v the level held before the call, and leaves the level as it was.
C2_MismatchKeepsLevel ==
    \A c \in Calls :
        ~RightWidth(c) =>
            /\ CallOutput(c) = Zero
            /\ CallLevel(c) = Before(c).level
            /\ After(c).level = Before(c).level

----------------------------------------------------------------------------
\* the sizes a genome must have for every neuron of n to accept its slice:
\* len(flat) // len(nodes) equals the neurons' weight-vector length
WellSized(g, n) ==
    \A L \in Layers :
        \A i \in 1..Len(n[L]) : Len(g[L]) \div Len(n[L]) = Len(n[L][i].weights)

\* C3 as stated: two fresh networks of one topology assigned the same genome
\* return the same output firing vector and levels at every step of the same
\* input sequence, whatever weights they drew at construction.
C3_SameGenomeSameOutputs ==
    (op = "compute" /\ genome # <<>>) => ret.output = twinRet.output

\* C3 amended: the same, for a genome whose flat vectors have the length the
\* layers accept (len(flat) // neurons = inputs + 1 in both layers); the hidden
\* layer's spikes and levels and the whole state of the two networks agree too.
C3_SizedGenomeSameOutputs ==
    (op = "compute" /\ genome # <<>> /\ WellSized(genome[1], net)) =>
        /\ ret.output = twinRet.output
        /\ ret.hidden = twinRet.hidden
        /\ net = twin

\* two networks, assigned a well-sized genome, have been fed two inputs and an
\* output neuron has fired
C3_Witness ==
    /\ op = "compute"
    /\ steps = 2
    /\ genome # <<>>
    /\ WellSized(genome[1], net)
    /\ \E j \in 1..Len(net.output_layer) : ret.output.outputs[j] = One

----------------------------------------------------------------------------
\* the layer-level calls made by the last net.set_weights
SetLayers == IF op = "set_weights" THEN {L \in Layers : Len(pre[L]) >= 1} ELSE {}

\* the flat vector's elements lo+1 .. hi (Python's flat[lo:hi])
Piece(flat, lo, hi) == [k \in 1..(hi - lo) |-> flat[lo + k]]

\* C4 as stated: layer.set_weights with n >= 1 neurons and a flat vector of any
\* length m makes neuron i's weight vector the slice [i*(m//n), (i+1)*(m//n)).
C4_NeuronGetsSlice ==
    \A L \in SetLayers :
        LET n == Len(pre[L])
            q == Len(arg[L]) \div n
        IN  \A i \in 1..n : net[L][i].weights = Piece(arg[L], (i - 1) * q, i * q)

\* C4 amended: neuron i is handed the slice [i*(m//n), (i+1)*(m//n)); when
\* m//n equals the neuron's weight-vector length its weights become that slice
\* with every entry but the last replaced by its absolute value, otherwise its
\* weights stay as they were.  The slices are contiguous and disjoint and the
\* trailing m mod n elements are used by no neuron.
C4_NeuronGetsAbsSliceOrKeeps ==
    \A L \in SetLayers :
        LET n == Len(pre[L])
            q == Len(arg[L]) \div n
        IN  \A i \in 1..n :
                IF q = Len(pre[L][i].weights)
                THEN /\ Len(net[L][i].weights) = q
                     /\ \A k \in 1..q :
                            LET v == arg[L][(i - 1) * q + k]
                            IN  net[L][i].weights[k] = (IF k < q THEN AbsRat(v) ELSE v)
                ELSE net[L][i].weights = pre[L][i].weights

\* a layer of two neurons took its slices from a flat vector with a remainder,
\* the two slices differing and the first holding a negative weight
C4_Witness ==
    \E L \in SetLayers :
        /\ Len(pre[L]) = 2
        /\ Len(arg[L]) % 2 = 1
        /\ Len(arg[L]) \div 2 = Len(pre[L][1].weights)
        /\ net[L][1].weights # net[L][2].weights
        /\ net[L][1].weights # Piece(arg[L], 0, 2)

----------------------------------------------------------------------------
\* sum of inputs[i] * weights[i] over the first K weights
RECURSIVE Dot(_, _, _)
Dot(inputs, weights, K) ==
    IF K = 0 THEN Zero ELSE Add(Mul(inputs[K], weights[K]), Dot(inputs, weights, K - 1))

\* the level a right-width call integrates to: the weighted sum from rest,
\* L * (1 - SPIKE_DECAY) + the weighted sum from level L
Integrated(c) ==
    LET node == Before(c)
        sum == Dot(CallInputs(c), node.weights, Len(node.weights) - 1)
    IN  IF Resting(node)
        THEN sum
        ELSE Add(Mul(node.level, Sub(One, SPIKE_DECAY)), sum)

AllZero(inputs) == \A k \in 1..Len(inputs) : inputs[k] = Zero

\* C5: on a compute call of the right width the new level (the one logged, and
\* kept unless the neuron fires) is the weighted sum over the first K weights
\* when the neuron was resting and L*(1 - SPIKE_DECAY) + weighted sum when it
\* was charging at L; a charging neuron given all-zero input that does not
\* fire ends at L*(1 - SPIKE_DECAY).
C5_IntegrationLaw ==
    \A c \in Calls :
        RightWidth(c) =>
            /\ After(c).levels_log = Append(Before(c).levels_log, Integrated(c))
            /\ CallOutput(c) = Zero => After(c).level = Integrated(c)
            /\ (Charging(Before(c)) /\ AllZero(CallInputs(c)) /\ CallOutput(c) = Zero) =>
                   After(c).level = Mul(Before(c).level, Sub(One, SPIKE_DECAY))

\* a neuron charging at a non-zero level took a non-zero weighted sum without
\* firing
C5_Witness ==
    \E c \in Calls :
        /\ RightWidth(c)
        /\ Charging(Before(c))
        /\ Before(c).level # Zero
        /\ ~AllZero(CallInputs(c))
        /\ CallOutput(c) = Zero
        /\ After(c).level # Before(c).level

\* C6: on a compute call of the right width the neuron fires (returns 1.0) iff
\* the integrated level is >= the bias; when it does not fire it records a 0
\* in the firing history and returns (0.0, level) with the level kept.
C6_ThresholdLaw ==
    \A c \in Calls :
        RightWidth(c) =>
            /\ CallOutput(c) = One <=> Geq(Integrated(c), Bias(Before(c)))
            /\ CallOutput(c) \in {Zero, One}
            /\ CallOutput(c) = Zero =>
                   /\ Recorded(Before(c), After(c), 0)
                   /\ CallLevel(c) = Integrated(c)
                   /\ After(c).level = Integrated(c)

\* a neuron fired with its integrated level equal to the bias, and another
\* call of the same compute did not fire
C6_Witness ==
    /\ \E c \in Calls :
           RightWidth(c) /\ CallOutput(c) = One /\ Integrated(c) = Bias(Before(c))
    /\ \E c \in Calls : RightWidth(c) /\ CallOutput(c) = Zero

\* a resting neuron was given an all-zero input of the right width and is at
\* rest after the call
RestsOnZeroInput(c) ==
    /\ Resting(Before(c))
    /\ RightWidth(c)
    /\ AllZero(CallInputs(c))
    /\ Resting(After(c))

\* C7 as stated: a neuron at rest given an all-zero input of the right width
\* is left at the resting sentinel only if its bias is >= 0.
C7_RestOnlyIfBiasNonNegative ==
    \A c \in Calls : RestsOnZeroInput(c) => Geq(Bias(Before(c)), Zero)

\* C7 amended: a neuron at rest given an all-zero input of the right width is
\* left at the resting sentinel only if its bias is <= 0 (it fired on level 0).
C7_RestOnlyIfBiasNonPositive ==
    \A c \in Calls : RestsOnZeroInput(c) => Geq(Zero, Bias(Before(c)))

\* a resting neuron of negative bias was given an all-zero input and is at rest
\* again; another, of positive bias, is charging
C7_Witness ==
    /\ \E c \in Calls : RestsOnZeroInput(c) /\ Bias(Before(c)) # Zero
    /\ \E c \in Calls :
           /\ Resting(Before(c)) /\ RightWidth(c) /\ AllZero(CallInputs(c))
           /\ Charging(After(c))

\* C8: compute with an input vector of the wrong length leaves the firing
\* history as it was (neither 1 nor 0 appended) and does not extend the levels
\* log.
C8_MismatchLogsNothing ==
    \A c \in Calls :
        ~RightWidth(c) =>
            /\ After(c).firelog = Before(c).firelog
            /\ After(c).levels_log = Before(c).levels_log

\* a neuron that has a history was given an input of the wrong length
C8_Witness ==
    \E c \in Calls : ~RightWidth(c) /\ Len(Before(c).levels_log) > 0

----------------------------------------------------------------------------
\* the network's declared input size: the input width of the hidden neurons
InputSize(n) == Len(n.hidden_layer[1].weights) - 1

\* C9 as stated: net.compute with an input vector whose length differs from
\* the declared input size returns firing value 0 for every output neuron and
\* leaves every neuron of both layers unchanged.
C9_NetMismatchIsInert ==
    (op = "compute" /\ Len(arg) # InputSize(pre)) =>
        /\ \A j \in 1..Len(ret.output.outputs) : ret.output.outputs[j] = Zero
        /\ net = pre

\* the 2-1-1 network with hidden weights [1, 1, 0.5] and output weights [1, 0.5],
\* at rest, was fed [1, 1]
Example211 ==
    /\ op = "compute"
    /\ Len(pre.hidden_layer) = 1
    /\ Len(pre.output_layer) = 1
    /\ pre.hidden_layer[1].weights = <<One, One, Half>>
    /\ pre.output_layer[1].weights = <<One, Half>>
    /\ Resting(pre.hidden_layer[1])
    /\ Resting(pre.output_layer[1])
    /\ arg = <<One, One>>

\* C10: net.compute feeds the inputs to the hidden layer and the hidden layer's
\* firing outputs (not its levels) to the output layer in the same step, and
\* returns the output layer's firing vector and levels; the 2-1-1 example
\* returns ([1.0], [-inf]).
C10_NetComposition ==
    op = "compute" =>
        /\ Len(ret.hidden.outputs) = Len(pre.hidden_layer)
        /\ \A i \in 1..Len(pre.hidden_layer) :
               LET c == <<"hidden_layer", i>>
               IN  ret.hidden.outputs[i] =
                       (IF RightWidth(c) /\ Geq(Integrated(c), Bias(Before(c)))
                        THEN One ELSE Zero)
        /\ Len(ret.output.outputs) = Len(pre.output_layer)
        /\ Len(ret.output.levels) = Len(pre.output_layer)
        /\ \A j \in 1..Len(pre.output_layer) :
               LET c == <<"output_layer", j>>
                   fired == Geq(Integrated(c), Bias(Before(c)))
               IN  /\ After(c).levels_log = Append(Before(c).levels_log, Integrated(c))
                   /\ ret.output.outputs[j] = (IF fired THEN One ELSE Zero)
                   /\ ret.output.levels[j] = (IF fired THEN NegInf ELSE Integrated(c))
                   /\ ret.output.levels[j] = After(c).level
        /\ Example211 => ret.output = [outputs |-> <<One>>, levels |-> <<NegInf>>]

\* the example has run, the hidden neuron firing
C10_Witness == Example211 /\ ret.hidden.outputs = <<One>>


----------------------------------------------------------------------------
(* The assignment interface *)

\* every neuron's weight vector, by layer
WeightsOf(n) ==
    [L \in LayerNames |-> [i \in 1..Len(n[L]) |-> n[L][i].weights]]

\* the last call was a net.set_weights that raised for a missing key
RaisedForMissingKey == op = "set_weights_raised"

\* C11: a net.set_weights call that fails for a missing 'hidden_layer' or
\* 'output_layer' key changes no neuron's weights in either layer
C11_FailedAssignmentChangesNothing ==
    RaisedForMissingKey => WeightsOf(net) = WeightsOf(pre)


----------------------------------------------------------------------------
(* Duty cycle *)

\* the neuron the last duty_cycle call was made on, and its window argument
Asked == net[arg.layer][arg.idx]
AskedWindow == arg.window

\* the window is None or a positive integer
CountsEntries(window) == window = <<>> \/ window[1] >= 1

\* the number of 1s among the last n entries of h
OnesAmongLast(h, n) == Cardinality({k \in (Len(h) - n + 1)..Len(h) : h[k] = 1})

\* x = a / b for a rational x and integers a, b with b # 0
IsQuotient(x, a, b) == x[2] # 0 /\ x[1] * b = a * x[2]

\* C12: duty_cycle(window) returns 0.0 on an empty history; otherwise it
\* returns w / window', where window' is window when window does not exceed the
\* stored history length and the stored length when window is larger or None,
\* and w is the number of 1s among the most recent window' entries.
C12_DutyCycleLaw ==
    (op = "duty_cycle" /\ CountsEntries(AskedWindow)) =>
        LET h == History(Asked)
            n == Len(h)
            window == IF AskedWindow # <<>> /\ AskedWindow[1] <= n
                      THEN AskedWindow[1] ELSE n
        IN  /\ ~ret.raised
            /\ IF n = 0 THEN ret.value = Zero
               ELSE IsQuotient(ret.value, OnesAmongLast(h, window), window)

\* the default window of 100 asked of a history that is full and has wrapped,
\* the neuron having fired in some of the last 100 steps and not in others
C12_Witness ==
    /\ op = "duty_cycle"
    /\ AskedWindow = <<100>>
    /\ Len(History(Asked)) = MAX_FIRELOG_SIZE
    /\ Asked.firelog.index # 0
    /\ ret.value # Zero
    /\ ret.value # One

\* C13: for every reachable firing history and every integer window, zero and
\* negative values included, duty_cycle raises no error and returns a number
\* in [0, 1].
C13_DutyCycleInUnitInterval ==
    op = "duty_cycle" =>
        /\ ~ret.raised
        /\ Geq(ret.value, Zero)
        /\ Geq(One, ret.value)


----------------------------------------------------------------------------
(* The set_weights calls made by the last operation *)

\* the layer.set_weights calls: <<layer, flat vector>>
LayerAssignments ==
    IF op = "set_weights" THEN {<<L, arg[L]>> : L \in Layers}
    ELSE IF op = "set_weights_raised"
    THEN (IF "hidden_layer" \in DOMAIN arg
          THEN {<<"hidden_layer", arg.hidden_layer>>} ELSE {})
    ELSE IF op = "layer_set_weights" THEN {<<arg.layer, arg.input_weights>>}
    ELSE {}

\* the slice of the flat vector that layer.set_weights hands to neuron i
HandedSlice(la, i) ==
    LET q == Len(la[2]) \div Len(pre[la[1]])
    IN  Piece(la[2], (i - 1) * q, i * q)

\* the node.set_weights calls: <<layer, index, vector>>
NodeAssignments ==
    IF op = "node_set_weights"
    THEN {<<arg.layer, arg.idx, arg.input_weights>>}
    ELSE UNION {{<<la[1], i, HandedSlice(la, i)>> : i \in 1..Len(pre[la[1]])} :
                    la \in LayerAssignments}

\* the vector's length is the neuron's weight-vector length
Matches(a) == Len(a[3]) = Len(pre[a[1]][a[2]].weights)

\* |x| for a finite x
Magnitude(x) == IF Geq(x, Zero) THEN x ELSE Sub(Zero, x)

\* C14: SpikyNode.set_weights with a vector whose length differs from the
\* neuron's current weight-vector length leaves every weight and the bias
\* unchanged (the call returns normally in the model as in the code).
C14_MismatchKeepsWeights ==
    \A a \in NodeAssignments :
        ~Matches(a) => net[a[1]][a[2]] = pre[a[1]][a[2]]

\* a direct node.set_weights call with a non-empty vector of another length
C14_Witness ==
    /\ op = "node_set_weights"
    /\ Len(arg.input_weights) >= 1
    /\ \E a \in NodeAssignments : ~Matches(a)

\* C15: after SpikyNode.set_weights with a vector v of matching length, weight
\* i is |v[i]| for every non-bias position and the bias is v[-1] with its sign;
\* hence every non-bias weight is >= 0 after a successful set_weights.
C15_AbsWeightsSignedBias ==
    \A a \in NodeAssignments :
        Matches(a) =>
            LET w == net[a[1]][a[2]].weights
                v == a[3]
            IN  /\ Len(w) = Len(v)
                /\ \A k \in 1..(Len(v) - 1) :
                       w[k] = Magnitude(v[k]) /\ Geq(w[k], Zero)
                /\ get_bias(net[a[1]][a[2]]) = v[Len(v)]

\* an accepted vector holding a negative weight and a negative bias
C15_Witness ==
    \E a \in NodeAssignments :
        /\ Matches(a)
        /\ \E k \in 1..(Len(a[3]) - 1) : ~Geq(a[3][k], Zero)
        /\ ~Geq(a[3][Len(a[3])], Zero)


----------------------------------------------------------------------------
(* Firing history and levels log over a long run *)

AllNodes == UNION {{<<L, i>> : i \in 1..Len(net[L])} : L \in Layers}

Min(a, b) == IF a < b THEN a ELSE b

\* the fired (1) / not fired (0) event of the k-th right-width compute call of
\* a neuron whose weights were never reassigned: the level that call logged
\* reached the bias or did not
Event(node, k) == IF Geq(node.levels_log[k], Bias(node)) THEN 1 ELSE 0

\* C16: a neuron's firing history never holds more than MAX_FIRELOG_SIZE
\* entries and holds exactly the most recent min(MAX_FIRELOG_SIZE, adds)
\* fired / not fired events, oldest first; after MAX_FIRELOG_SIZE or more adds
\* length() is MAX_FIRELOG_SIZE and get() returns the last MAX_FIRELOG_SIZE
\* values in order.
C16_HistoryIsRecentEvents ==
    \A c \in AllNodes :
        LET node == After(c)
            h == History(node)
            adds == Len(node.levels_log)
            m == Min(MAX_FIRELOG_SIZE, adds)
        IN  /\ RingBufferLength(node.firelog) <= MAX_FIRELOG_SIZE
            /\ RingBufferLength(node.firelog) = m
            /\ Len(h) = m
            /\ \A k \in 1..m : h[k] = Event(node, adds - m + k)

\* a neuron past its capacity whose stored history holds both events
C16_Witness ==
    \E c \in AllNodes :
        /\ Len(After(c).levels_log) > MAX_FIRELOG_SIZE + 2
        /\ \E k \in 1..MAX_FIRELOG_SIZE : History(After(c))[k] = 1
        /\ \E k \in 1..MAX_FIRELOG_SIZE : History(After(c))[k] = 0

\* the number of compute calls of the right width a neuron has had after
\* `steps` steps of the stimulus: every step for an output neuron, the steps
\* whose stimulus has the network's input size for a hidden neuron
RightWidthCalls(c) ==
    IF c[1] = "output_layer" THEN steps
    ELSE Cardinality({k \in 0..(steps - 1) :
                         Len(Stimulus(k, InputSize(net))) = InputSize(net)})

\* C18: the levels log and the firing history advance in lock-step: the length
\* of the levels log is the number of entries ever added to the firing history
\* and the number of compute calls made with an input of the right width, and
\* the entry logged on a firing step is the finite level reached before the
\* reset, not the sentinel.
C18_LogsInLockStep ==
    /\ \A c \in AllNodes :
           LET node == After(c)
               logged == Len(node.levels_log)
           IN  /\ logged = RightWidthCalls(c)
               /\ RingBufferLength(node.firelog) = Min(MAX_FIRELOG_SIZE, logged)
               /\ node.firelog.index = logged % MAX_FIRELOG_SIZE
    /\ \A c \in Calls :
           (RightWidth(c) /\ CallOutput(c) = One) =>
               /\ ~IsInf(Last(After(c).levels_log))
               /\ Last(After(c).levels_log) = Integrated(c)
               /\ Geq(Last(After(c).levels_log), Bias(Before(c)))

\* a charging output neuron fires past its capacity while the hidden neurons,
\* having been given inputs of the wrong width, have logged fewer steps
C18_Witness ==
    /\ op = "compute"
    /\ \E c \in Calls :
           /\ c[1] = "output_layer"
           /\ CallOutput(c) = One
           /\ Charging(Before(c))
           /\ Len(After(c).levels_log) > MAX_FIRELOG_SIZE
    /\ Len(net.hidden_layer[1].levels_log) < steps


----------------------------------------------------------------------------
(* What assignment keeps *)

AssignmentOps ==
    {"set_weights", "set_weights_raised", "layer_set_weights",
     "node_set_weights", "set_bias"}

\* C17: after any sequence of compute, set_weights (with a vector of any
\* length, at neuron, layer or network level) and set_bias calls, every
\* neuron's weight vector has the length K + 1 fixed at construction, and the
\* output layer's input width equals the number of hidden neurons.
C17_WeightLengthsFixed ==
    /\ \A L \in Layers :
           /\ Len(net[L]) = Len(pre[L])
           /\ \A i \in 1..Len(net[L]) :
                  Len(net[L][i].weights) = Len(pre[L][i].weights)
    /\ \A i \in 1..Len(net.hidden_layer) :
           Len(net.hidden_layer[i].weights) = InputSize(net) + 1
    /\ \A j \in 1..Len(net.output_layer) :
           Len(net.output_layer[j].weights) = Len(net.hidden_layer) + 1

\* a second call that follows a compute and is either a set_bias or an
\* assignment of a flat vector too long for the layer
C17_Witness ==
    /\ steps = MaxSteps
    /\ \E L \in Layers : net[L][1].levels_log # <<>>
    /\ \/ op = "set_bias"
       \/ /\ op = "layer_set_weights"
          /\ Len(arg.input_weights) >
                 Len(pre[arg.layer]) * Len(pre[arg.layer][1].weights)

\* a neuron's state other than its weights
Dynamics(node) ==
    [level |-> node.level, firelog |-> node.firelog, levels_log |-> node.levels_log]

\* C19: SpikyNode.set_weights, SpikyNode.set_bias, SpikyLayer.set_weights and
\* SpikyNet.set_weights leave every neuron's level, firing history and levels
\* log unchanged, whether or not the assignment succeeds.
C19_AssignmentKeepsDynamics ==
    op \in AssignmentOps =>
        \A L \in Layers :
            /\ Len(net[L]) = Len(pre[L])
            /\ \A i \in 1..Len(net[L]) : Dynamics(net[L][i]) = Dynamics(pre[L][i])

\* an assignment that changes the weights of a network holding a charging
\* neuron with a non-empty history
C19_Witness ==
    /\ op \in AssignmentOps
    /\ WeightsOf(net) # WeightsOf(pre)
    /\ \E L \in Layers :
           /\ Charging(pre[L][1])
           /\ pre[L][1].level # Zero
           /\ History(pre[L][1]) # <<>>

\* the weight vector a neuron stores when it accepts the slice v
Stored(v) == [k \in 1..Len(v) |-> IF k < Len(v) THEN Magnitude(v[k]) ELSE v[k]]

\* C20: SpikyLayer.set_weights is all-or-nothing within a layer: after the call
\* either every neuron holds its new slice (as set_weights stores it) or every
\* neuron holds its previous weights.
C20_LayerAllOrNothing ==
    \A la \in LayerAssignments :
        LET L == la[1]
        IN  \/ \A i \in 1..Len(net[L]) :
                   net[L][i].weights = Stored(HandedSlice(la, i))
            \/ \A i \in 1..Len(net[L]) : net[L][i].weights = pre[L][i].weights

\* a layer of two neurons takes a flat vector that changes both of them
C20_Witness ==
    \E la \in LayerAssignments :
        /\ Len(pre[la[1]]) = 2
        /\ net[la[1]][1].weights # pre[la[1]][1].weights
        /\ net[la[1]][2].weights # pre[la[1]][2].weights

====
